---- MODULE Spec2Model ----
(***************************************************************************)
(* Clinic portal (Streamlit + SQLAlchemy over SQLite).                     *)
(*                                                                         *)
(* State: the four tables (users, patients, appointments,                  *)
(* doctor_assignments), the per-browser st.session_state, the script run   *)
(* each browser session has in flight, the calendar day, and the column    *)
(* default of DoctorAssignment.assignment_date, which the navigation       *)
(* modules compute once, when they are imported.                           *)
(*                                                                         *)
(* Text is a sequence of characters, so that str.strip() is computed.      *)
(* A nullable column holds <<>> (NULL) or <<v>>.  Days are integers.       *)
(*                                                                         *)
(* Streamlit runs the script of every browser session in a thread of its   *)
(* own.  The handlers that query and then insert (registration, admin      *)
(* Assign, doctor Add to My Patient List) are two steps, the query and the *)
(* commit, so that the runs of two sessions interleave.  The handlers that *)
(* update one row they loaded are one step.                                *)
(*                                                                         *)
(* Every action takes the bounds B it is explored under: Spec has one      *)
(* browser session and the wider tables, SpecRace two browser sessions and *)
(* the narrower tables, SpecAppt one browser session and more             *)
(* appointments.  SpecDelete adds the deletion of a patient, which the     *)
(* relationships of Patient cascade and no page of the portal calls.       *)
(* SpecPatients adds the doctor's "My Patients" page, SpecRegister is the  *)
(* registration form with dates on both sides of its window, SpecSeed      *)
(* applies init_db to the users tables it may find, and SpecCalendar shows *)
(* the calendar page on every day and every set of appointments.           *)
(***************************************************************************)
EXTENDS Integers, Sequences, FiniteSets, TLC

\* ------------------------------------------------------------- bounds
NumSessions == 1
MaxPatients == 2
MaxAppts == 1
MaxAssign == 3
MaxRows == 4
MaxDay == 1
NumDoctors == 3
MaxRowId == 3

RaceSessions == 2
RacePatients == 2
RaceAppts == 1
RaceAssign == 2
RaceRows == 3
RaceDay == 1
RaceDoctors == 2

ApptPatients == 1
ApptAppts == 2
ApptAssign == 1
ApptRows == 4
ApptDoctors == 2
DelDoctors == 1

MaxUsers == 4

RegPatients == 1

CalDays == 37
CalAppts == 2

Wide ==
    [sessions |-> NumSessions, patients |-> MaxPatients, appts |-> MaxAppts,
     assign |-> MaxAssign, rows |-> MaxRows, days |-> MaxDay,
     doctors |-> NumDoctors, ids |-> MaxRowId]

Race ==
    [sessions |-> RaceSessions, patients |-> RacePatients, appts |-> RaceAppts,
     assign |-> RaceAssign, rows |-> RaceRows, days |-> RaceDay,
     doctors |-> RaceDoctors, ids |-> MaxRowId]

Appt ==
    [sessions |-> NumSessions, patients |-> ApptPatients, appts |-> ApptAppts,
     assign |-> ApptAssign, rows |-> ApptRows, days |-> MaxDay,
     doctors |-> ApptDoctors, ids |-> MaxRowId]

Del ==
    [sessions |-> NumSessions, patients |-> MaxPatients, appts |-> MaxAppts,
     assign |-> RaceAssign, rows |-> ApptRows, days |-> MaxDay,
     doctors |-> DelDoctors, ids |-> MaxRowId]

Reg ==
    [sessions |-> NumSessions, patients |-> RegPatients, appts |-> MaxAppts,
     assign |-> MaxAssign, rows |-> MaxRows, days |-> MaxDay,
     doctors |-> NumDoctors, ids |-> MaxRowId]

Pat ==
    [sessions |-> NumSessions, patients |-> ApptPatients, appts |-> MaxAppts,
     assign |-> RaceAssign, rows |-> ApptRows, days |-> MaxDay,
     doctors |-> RaceDoctors, ids |-> MaxRowId]

\* ------------------------------------------------------------- values
None == <<>>

Some(v) == <<v>>

Min(a, b) == IF a <= b THEN a ELSE b

\* The doctor accounts init_db seeds and the login form offers.
SeedDoctors == <<"Dr. Das", "Dr. Santra", "Dr. Banarjee", "Dr. Ghosh">>

\* What the forms submit.
NameInputs == {<<>>, <<" ">>, <<"J">>}

MobileInputs == {<<>>, <<"1">>, <<" ", "1">>, <<"2">>}

ReasonInputs == {<<>>, <<"f">>}

DobInputs == {None, Some(0)}

\* timedelta(days=30): how far back the date of birth may lie.
DobWindow == 30

\* The dates a visitor may try to pick, around both ends of the window.
DobTried ==
    {None} \cup
    {Some(d) : d \in {-DobWindow - 1, -DobWindow, 1 - DobWindow, 0, 1, MaxDay + 1}}

CancelReasonInputs == {<<>>, <<"x">>}

DoctorInputs(B) == {SeedDoctors[i] : i \in 1..Min(B.doctors, Len(SeedDoctors))}

UsernameInputs(B) == {"admin"} \cup DoctorInputs(B)

PasswordInputs == {"Admin@123", "@123"}

NotesInputs == {<<>>, <<"n">>}

ApptTimes == {"09:00"}

ApptReasons == {<<"c">>}

\* ------------------------------------------------------------- state
VARIABLES
    users,               \* table users
    patients,            \* table patients
    appointments,        \* table appointments
    assignments,         \* table doctor_assignments
    today,               \* the calendar day
    assignment_default,  \* DoctorAssignment.assignment_date's column default
    session,             \* st.session_state of each browser session
    run,                 \* the script run each browser session has in flight
    out                  \* what the last run of a handler showed

Sessions == DOMAIN session

vars == <<users, patients, appointments, assignments, today,
          assignment_default, session, run, out>>

tables == <<patients, appointments, assignments>>

\* ------------------------------------------------------------- helpers
\* str.strip(): leading and trailing whitespace removed.
RECURSIVE LStrip(_)
LStrip(s) == IF s # <<>> /\ Head(s) = " " THEN LStrip(Tail(s)) ELSE s

RECURSIVE RStrip(_)
RStrip(s) ==
    IF s # <<>> /\ s[Len(s)] = " " THEN RStrip(SubSeq(s, 1, Len(s) - 1)) ELSE s

Strip(s) == RStrip(LStrip(s))

\* Python truthiness of a form value: a non-empty string, a date that is set.
Truthy(v) == v # <<>>

\* The date picker with the lower end of its range left out.
date_inputNoMin(value, min_value, max_value) ==
    IF value # None /\ value[1] <= max_value THEN value ELSE None

\* st.date_input(min_value, max_value, value=None): the widget returns a date
\* of its range, or None; a date outside the range is not one it takes, and a
\* date picked under another range is dropped with the widget's old identity.
date_input(value, min_value, max_value) ==
    IF value # None /\ min_value <= value[1] /\ value[1] <= max_value
    THEN value ELSE None

\* bcrypt.hashpw and bcrypt.checkpw.
Hashpw(pw) == <<"bcrypt", pw>>

Checkpw(pw, hash) == hash = Hashpw(pw)

\* The primary key SQLite gives the next row of a table.
MaxId(rows) == IF rows = {} THEN 0
               ELSE CHOOSE i \in {r.id : r \in rows} : \A r \in rows : r.id <= i

NextId(rows) == MaxId(rows) + 1

\* init_db: the default accounts, each inserted only when its username is absent.
RECURSIVE SeedDoctorUsers(_, _)
SeedDoctorUsers(us, i) ==
    IF i > Len(SeedDoctors) THEN us
    ELSE IF \E u \in us : u.username = SeedDoctors[i]
         THEN SeedDoctorUsers(us, i + 1)
         ELSE SeedDoctorUsers(
                  us \cup {[id |-> NextId(us), username |-> SeedDoctors[i],
                            password_hash |-> Hashpw("@123"), role |-> "Doctor"]},
                  i + 1)

\* Seeding that resets the admin account to its default.
init_dbResetsAdmin(us) ==
    SeedDoctorUsers(
        {u \in us : u.username # "admin"} \cup
            {[id |-> NextId(us), username |-> "admin",
              password_hash |-> Hashpw("Admin@123"), role |-> "Admin"]},
        1)

init_db(us) ==
    LET withAdmin ==
            IF \E u \in us : u.username = "admin" THEN us
            ELSE us \cup {[id |-> NextId(us), username |-> "admin",
                           password_hash |-> Hashpw("Admin@123"), role |-> "Admin"]}
    IN SeedDoctorUsers(withAdmin, 1)

\* The users tables init_db may find: usernames are unique, a username may
\* be held by an account of either role and with any password.
UserNames ==
    <<"admin", "Dr. Das", "guest", "Dr. Santra", "Dr. Banarjee", "Dr. Ghosh">>

UserVariants ==
    {None,
     Some([role |-> "Admin", password_hash |-> Hashpw("Admin@123")]),
     Some([role |-> "Doctor", password_hash |-> Hashpw("@123")]),
     Some([role |-> "Doctor", password_hash |-> Hashpw("changed")])}

UserTables ==
    LET N == 1..Min(MaxUsers, Len(UserNames)) IN
    {{[id |-> i, username |-> UserNames[i], password_hash |-> f[i][1].password_hash,
       role |-> f[i][1].role] : i \in {j \in N : f[j] # None}} :
        f \in [N -> UserVariants]}

\* st.session_state with no key set.
EmptySession ==
    [login_status |-> FALSE, username |-> "", role |-> "",
     logout_flow_active |-> FALSE, logout_flow_doctor |-> FALSE,
     confirm_complete |-> {}]

Idle == [pc |-> "idle", arg |-> <<>>]

\* main(): which page a run of the script shows.
PageOf(state) ==
    IF ~state.login_status THEN "auth"
    ELSE IF state.role = "Admin" THEN "admin"
    ELSE IF state.role = "Doctor" THEN "doctor"
    ELSE "blank"

Page(s) == PageOf(session[s])

\* show_admin_navigation / show_doctor_dashboard: the pages are rendered only
\* while no logout confirmation is pending.
AdminPages(s) ==
    /\ run[s] = Idle
    /\ Page(s) = "admin"
    /\ ~session[s].logout_flow_active

DoctorPages(s) ==
    /\ run[s] = Idle
    /\ Page(s) = "doctor"
    /\ ~session[s].logout_flow_doctor

\* Runs in flight that are about to insert a row.
InFlight(pcs) == Cardinality({s \in Sessions : run[s].pc \in pcs})

RoomForRow(B) ==
    Cardinality(patients) + Cardinality(appointments) + Cardinality(assignments)
        + InFlight({"register", "assign", "add"}) < B.rows

RoomForAssignment(B) ==
    /\ Cardinality(assignments) + InFlight({"assign", "add"}) < B.assign
    /\ NextId(assignments) + InFlight({"assign", "add"}) <= B.ids
    /\ RoomForRow(B)

\* st.error / st.warning / st.success / st.toast of the run, or the exception
\* that ended it.
Report(op, res) == out' = [op |-> op, res |-> res]

\* The runs that leave through st.rerun(): the RerunException it raises ends
\* the page function before the session.close() on its last line.  Every
\* other page function runs to that line, registration closes in a finally,
\* the login form closes right after its query.
RerunBeforeClose ==
    {<<"assign", "ok">>, <<"schedule", "ok">>, <<"approve", "ok">>,
     <<"deny", "ok">>, <<"add", "ok">>, <<"request_cancel", "ok">>,
     <<"save_notes", "ok">>, <<"mark_completed", "are_you_sure">>,
     <<"yes_complete", "ok">>, <<"no_complete", "none">>}

\* Whether the run that reported (op, res) closed the store session it opened.
session_closed(op, res) == <<op, res>> \notin RerunBeforeClose

\* ------------------------------------------------------------- Init
Start(B) ==
    /\ users = init_db({})
    /\ patients = {}
    /\ appointments = {}
    /\ assignments = {}
    /\ today = 0
    /\ assignment_default = today
    /\ session = [s \in 1..B.sessions |-> EmptySession]
    /\ run = [s \in 1..B.sessions |-> Idle]
    /\ out = [op |-> "start", res |-> "none"]

Init == Start(Wide)

InitRace == Start(Race)

\* ------------------------------------------------------------- clock
\* Midnight passes; the process keeps running, the imported modules with it.
Tick(B) ==
    /\ today < B.days
    /\ today' = today + 1
    /\ UNCHANGED <<users, tables, assignment_default, session, run, out>>

\* ------------------------------------------------------------- calendar
\* The calendar the days are counted in: day 0 is Monday 1 January 2024.
MonthLengths == <<31, 29, 31, 30>>

RECURSIVE MonthStart(_)
MonthStart(m) == IF m = 1 THEN 0 ELSE MonthStart(m - 1) + MonthLengths[m - 1]

MonthOf(d) ==
    CHOOSE m \in DOMAIN MonthLengths :
        MonthStart(m) <= d /\ d < MonthStart(m) + MonthLengths[m]

\* date.weekday(): Monday is 0.
Weekday(d) == d % 7

\* datetime(year, month, 1) and .replace(day=1).
ReplaceDay1(d) == MonthStart(MonthOf(d))

\* show_dashboard_calendar: <<weekly metric, monthly metric>>.
show_dashboard_calendar(appts, now) ==
    LET start_of_month == ReplaceDay1(now)
        end_of_month == ReplaceDay1(start_of_month + 32) - 1
        appointments_ ==
            {a \in appts : start_of_month <= a.date /\ a.date <= end_of_month}
        week_start == now - Weekday(now)
        weekly_appts ==
            Cardinality({a \in appointments_ :
                            week_start <= a.date /\ a.date <= now})
    IN <<weekly_appts, Cardinality(appointments_)>>

\* The admin opens "Monthly Calendar".
ShowCalendar(s) ==
    /\ AdminPages(s)
    /\ users' = init_db(users)
    /\ Report("calendar", show_dashboard_calendar(appointments, today))
    /\ UNCHANGED <<tables, today, assignment_default, session, run>>

\* Any day of the calendar, any appointments on its days, the admin logged in.
StartCalendar ==
    /\ users = init_db({})
    /\ patients = {}
    /\ \E n \in 0..CalAppts : \E f \in [1..n -> 0..CalDays] :
           appointments =
               {[id |-> i, patient_id |-> 1, doctor_name |-> SeedDoctors[1],
                 date |-> f[i], time |-> "09:00", reason |-> <<"c">>,
                 status |-> "Scheduled", cancellation_reason |-> None] : i \in 1..n}
    /\ assignments = {}
    /\ today \in 0..CalDays
    /\ assignment_default = 0
    /\ session = [s \in 1..NumSessions |->
                     [EmptySession EXCEPT !.login_status = TRUE,
                                          !.username = "admin", !.role = "Admin"]]
    /\ run = [s \in 1..NumSessions |-> Idle]
    /\ out = [op |-> "start", res |-> "none"]

\* ------------------------------------------------------------- seeding
\* main() on a run of the script in which no button is pressed: init_db().
SeedRun ==
    /\ users' = init_db(users)
    /\ Report("init_db", IF out.op = "init_db" THEN "again" ELSE "first")
    /\ UNCHANGED <<tables, today, assignment_default, session, run>>

StartSeed ==
    /\ users \in UserTables
    /\ patients = {}
    /\ appointments = {}
    /\ assignments = {}
    /\ today = 0
    /\ assignment_default = today
    /\ session = [s \in 1..NumSessions |-> EmptySession]
    /\ run = [s \in 1..NumSessions |-> Idle]
    /\ out = [op |-> "start", res |-> "none"]

\* ------------------------------------------------------------- login
\* The lookup with the role left out of the filter.
LoginLookupAnyRole(username, role) ==
    {u \in init_db(users) : u.username = username}

\* show_auth_page, login form: the lookup runs after main() has called init_db.
LoginLookup(username, role) ==
    {u \in init_db(users) : u.username = username /\ u.role = role}

\* The login whose error tells an unknown username from a wrong password.
LoginTellsWhich(s, username, password, role) ==
    /\ run[s] = Idle
    /\ Page(s) = "auth"
    /\ role = "Doctor" => username \in {SeedDoctors[i] : i \in DOMAIN SeedDoctors}
    /\ users' = init_db(users)
    /\ IF \E u \in LoginLookup(username, role) : Checkpw(password, u.password_hash)
       THEN /\ session' = [session EXCEPT ![s].login_status = TRUE,
                                          ![s].username = username,
                                          ![s].role = role]
            /\ Report("login", "ok")
       ELSE /\ session' = session
            /\ Report("login", IF LoginLookup(username, role) = {}
                               THEN "unknown_user" ELSE "wrong_password")
    /\ UNCHANGED <<tables, today, assignment_default, run>>

Login(s, username, password, role) ==
    /\ run[s] = Idle
    /\ Page(s) = "auth"
    /\ role = "Doctor" => username \in {SeedDoctors[i] : i \in DOMAIN SeedDoctors}
    /\ users' = init_db(users)
    /\ IF \E u \in LoginLookup(username, role) : Checkpw(password, u.password_hash)
       THEN /\ session' = [session EXCEPT ![s].login_status = TRUE,
                                          ![s].username = username,
                                          ![s].role = role]
            /\ Report("login", "ok")
       ELSE /\ session' = session
            /\ Report("login", "invalid_credentials")
    /\ UNCHANGED <<tables, today, assignment_default, run>>

\* show_admin_navigation / show_doctor_dashboard, the logout flow.
LogoutStart(s) ==
    /\ \/ /\ AdminPages(s)
          /\ session' = [session EXCEPT ![s].logout_flow_active = TRUE]
       \/ /\ DoctorPages(s)
          /\ session' = [session EXCEPT ![s].logout_flow_doctor = TRUE]
    /\ users' = init_db(users)
    /\ Report("logout", "are_you_sure")
    /\ UNCHANGED <<tables, today, assignment_default, run>>

LogoutPending(s) ==
    /\ run[s] = Idle
    /\ \/ Page(s) = "admin" /\ session[s].logout_flow_active
       \/ Page(s) = "doctor" /\ session[s].logout_flow_doctor

LogoutYes(s) ==
    /\ LogoutPending(s)
    /\ session' = [session EXCEPT ![s] = EmptySession]
    /\ users' = init_db(users)
    /\ Report("logout", "none")
    /\ UNCHANGED <<tables, today, assignment_default, run>>

LogoutNo(s) ==
    /\ LogoutPending(s)
    /\ session' = [session EXCEPT ![s].logout_flow_active = FALSE,
                                  ![s].logout_flow_doctor = FALSE]
    /\ users' = init_db(users)
    /\ Report("logout", "none")
    /\ UNCHANGED <<tables, today, assignment_default, run>>

\* ------------------------------------------------------------- registration
\* show_auth_page, registration form: the checks and the query.
RegisterSubmit(B, s, name, mobile, picked, reason) ==
    /\ run[s] = Idle
    /\ Page(s) = "auth"
    /\ users' = init_db(users)
    /\ LET dob == date_input(picked, today - DobWindow, today) IN
       IF ~(Truthy(name) /\ Truthy(mobile) /\ Truthy(dob) /\ Truthy(reason))
       THEN /\ Report("register", "fill_all_fields")
            /\ run' = run
       ELSE IF \E p \in patients : p.mobile = Strip(mobile)
       THEN /\ Report("register", "mobile_already_registered")
            /\ run' = run
       ELSE /\ Cardinality(patients) + InFlight({"register"}) < B.patients
            /\ NextId(patients) + InFlight({"register"}) <= B.ids
            /\ RoomForRow(B)
            /\ run' = [run EXCEPT ![s] =
                          [pc |-> "register",
                           arg |-> <<Strip(name), Strip(mobile), dob, Strip(reason)>>]]
            /\ Report("register", "processing")
    /\ UNCHANGED <<tables, today, assignment_default, session>>

\* session.add(new_patient); session.commit(): the unique index on mobile
\* makes the INSERT raise IntegrityError, which nothing catches.
RegisterCommit(s) ==
    /\ run[s].pc = "register"
    /\ LET a == run[s].arg IN
       IF \E p \in patients : p.mobile = a[2]
       THEN /\ patients' = patients
            /\ Report("register", "IntegrityError")
       ELSE /\ patients' = patients \cup
                   {[id |-> NextId(patients), name |-> a[1], mobile |-> a[2],
                     dob |-> a[3], reason_to_visit |-> a[4],
                     status |-> "Active", prescriptions |-> None]}
            /\ Report("register", "ok")
    /\ run' = [run EXCEPT ![s] = Idle]
    /\ UNCHANGED <<users, appointments, assignments, today, assignment_default,
                   session>>

\* ------------------------------------------------------------- admin pages
DoctorUsers == {u.username : u \in {x \in users : x.role = "Doctor"}}

\* manage_patients_and_assignments, "Assign": the query of the patient's
\* assignments dated today and the two checks on its rows.
AssignmentsToday(p) ==
    {a \in assignments : a.patient_id = p /\ a.assignment_date = today}

AssignQuery(B, s, p, d) ==
    /\ AdminPages(s)
    /\ p \in {x.id : x \in patients}
    /\ d \in {""} \cup DoctorUsers
    /\ users' = init_db(users)
    /\ IF d = ""
       THEN /\ Report("assign", "none")
            /\ run' = run
       ELSE IF Cardinality(AssignmentsToday(p)) >= 2
       THEN /\ Report("assign", "limit_reached")
            /\ run' = run
       ELSE IF d \in {a.doctor_name : a \in AssignmentsToday(p)}
       THEN /\ Report("assign", "already_assigned")
            /\ run' = run
       ELSE /\ RoomForAssignment(B)
            /\ run' = [run EXCEPT ![s] = [pc |-> "assign", arg |-> <<p, d, today>>]]
            /\ Report("assign", "none")
    /\ UNCHANGED <<tables, today, assignment_default, session>>

\* session.add(DoctorAssignment(patient_id, doctor_name)); session.commit():
\* assignment_date is left to the column default.
AssignCommit(s) ==
    /\ run[s].pc = "assign"
    /\ assignments' = assignments \cup
           {[id |-> NextId(assignments), patient_id |-> run[s].arg[1],
             doctor_name |-> run[s].arg[2],
             assignment_date |-> assignment_default]}
    /\ Report("assign", "ok")
    /\ run' = [run EXCEPT ![s] = Idle]
    /\ UNCHANGED <<users, patients, appointments, today, assignment_default,
                   session>>

\* manage_appointments, "Schedule Appointment".
ScheduleAppointment(B, s, p, d, date, time, reason) ==
    /\ AdminPages(s)
    /\ p \in {x.id : x \in patients}
    /\ d \in DoctorUsers
    /\ date >= today
    /\ Cardinality(appointments) < B.appts
    /\ NextId(appointments) <= B.ids
    /\ RoomForRow(B)
    /\ users' = init_db(users)
    /\ appointments' = appointments \cup
           {[id |-> NextId(appointments), patient_id |-> p, doctor_name |-> d,
             date |-> date, time |-> time, reason |-> reason,
             status |-> "Scheduled", cancellation_reason |-> None]}
    /\ Report("schedule", "ok")
    /\ UNCHANGED <<patients, assignments, today, assignment_default, session, run>>

\* The list with the cancelled appointments left in.
CancellationRequestsOrCancelled ==
    {a \in appointments : a.status \in {"Cancellation Requested", "Cancelled"}}

\* manage_appointments, the pending cancellation requests.
CancellationRequests == {a \in appointments : a.status = "Cancellation Requested"}

\* Approve that cancels every appointment with a pending request.
ApproveAll(s, a) ==
    /\ AdminPages(s)
    /\ a \in CancellationRequests
    /\ users' = init_db(users)
    /\ appointments' =
           {IF x \in CancellationRequests THEN [x EXCEPT !.status = "Cancelled"]
            ELSE x : x \in appointments}
    /\ Report("approve", "ok")
    /\ UNCHANGED <<patients, assignments, today, assignment_default, session, run>>

\* Approve that drops the reason the doctor gave.
ApproveClearsReason(s, a) ==
    /\ AdminPages(s)
    /\ a \in CancellationRequests
    /\ users' = init_db(users)
    /\ appointments' = (appointments \ {a}) \cup
           {[a EXCEPT !.status = "Cancelled", !.cancellation_reason = None]}
    /\ Report("approve", "ok")
    /\ UNCHANGED <<patients, assignments, today, assignment_default, session, run>>

Approve(s, a) ==
    /\ AdminPages(s)
    /\ a \in CancellationRequests
    /\ users' = init_db(users)
    /\ appointments' = (appointments \ {a}) \cup {[a EXCEPT !.status = "Cancelled"]}
    /\ Report("approve", "ok")
    /\ UNCHANGED <<patients, assignments, today, assignment_default, session, run>>

\* Deny that leaves cancellation_reason as it was.
DenyKeepsReason(s, a) ==
    /\ AdminPages(s)
    /\ a \in CancellationRequests
    /\ users' = init_db(users)
    /\ appointments' = (appointments \ {a}) \cup {[a EXCEPT !.status = "Scheduled"]}
    /\ Report("deny", "ok")
    /\ UNCHANGED <<patients, assignments, today, assignment_default, session, run>>

Deny(s, a) ==
    /\ AdminPages(s)
    /\ a \in CancellationRequests
    /\ users' = init_db(users)
    /\ appointments' = (appointments \ {a}) \cup
           {[a EXCEPT !.status = "Scheduled", !.cancellation_reason = None]}
    /\ Report("deny", "ok")
    /\ UNCHANGED <<patients, assignments, today, assignment_default, session, run>>

\* ------------------------------------------------------------- doctor pages
\* The list with the appointments of every doctor.
MyAppointmentsAnyDoctor(doctor_name) ==
    {a \in appointments : a.status \in {"Scheduled", "Cancellation Requested"}}

\* manage_my_appointments: the doctor's appointments that are not cancelled.
MyAppointments(doctor_name) ==
    {a \in appointments :
        /\ a.doctor_name = doctor_name
        /\ a.status \in {"Scheduled", "Cancellation Requested"}}

\* "Add to My Patient List": the query that decides whether the button shows.
AssignmentExists(a, doctor_name) ==
    \E x \in assignments :
        /\ x.patient_id = a.patient_id
        /\ x.doctor_name = doctor_name
        /\ x.assignment_date = a.date

AddQuery(B, s, a) ==
    /\ DoctorPages(s)
    /\ a \in MyAppointments(session[s].username)
    /\ a.status = "Scheduled"
    /\ users' = init_db(users)
    /\ IF AssignmentExists(a, session[s].username)
       THEN /\ Report("add", "already_on_list")
            /\ run' = run
       ELSE /\ RoomForAssignment(B)
            /\ run' = [run EXCEPT ![s] =
                          [pc |-> "add",
                           arg |-> <<a.patient_id, session[s].username, a.date>>]]
            /\ Report("add", "none")
    /\ UNCHANGED <<tables, today, assignment_default, session>>

AddCommit(s) ==
    /\ run[s].pc = "add"
    /\ assignments' = assignments \cup
           {[id |-> NextId(assignments), patient_id |-> run[s].arg[1],
             doctor_name |-> run[s].arg[2], assignment_date |-> run[s].arg[3]]}
    /\ Report("add", "ok")
    /\ run' = [run EXCEPT ![s] = Idle]
    /\ UNCHANGED <<users, patients, appointments, today, assignment_default,
                   session>>

\* The request with the check of the reason left out.
RequestCancelAnyReason(s, a, reason) ==
    /\ DoctorPages(s)
    /\ a \in MyAppointments(session[s].username)
    /\ a.status = "Scheduled"
    /\ users' = init_db(users)
    /\ appointments' = (appointments \ {a}) \cup
           {[a EXCEPT !.status = "Cancellation Requested",
                      !.cancellation_reason = Some(reason)]}
    /\ Report("request_cancel", "ok")
    /\ UNCHANGED <<patients, assignments, today, assignment_default, session, run>>

\* "Request to Cancel", "Submit Request".
RequestCancel(s, a, reason) ==
    /\ DoctorPages(s)
    /\ a \in MyAppointments(session[s].username)
    /\ a.status = "Scheduled"
    /\ users' = init_db(users)
    /\ IF Truthy(reason)
       THEN /\ appointments' = (appointments \ {a}) \cup
                   {[a EXCEPT !.status = "Cancellation Requested",
                              !.cancellation_reason = Some(reason)]}
            /\ Report("request_cancel", "ok")
       ELSE /\ appointments' = appointments
            /\ Report("request_cancel", "reason_required")
    /\ UNCHANGED <<patients, assignments, today, assignment_default, session, run>>

\* The list with every Active patient, assigned to the doctor or not.
AllActivePatients(doctor_name) == {p \in patients : p.status = "Active"}

\* manage_my_patients: the Active patients with an assignment to the doctor,
\* of any date.
MyActivePatients(doctor_name) ==
    {p \in patients :
        /\ p.status = "Active"
        /\ \E a \in assignments :
               a.doctor_name = doctor_name /\ a.patient_id = p.id}

\* "Save Notes".
SaveNotes(s, p, notes) ==
    /\ DoctorPages(s)
    /\ p \in MyActivePatients(session[s].username)
    /\ users' = init_db(users)
    /\ patients' = (patients \ {p}) \cup {[p EXCEPT !.prescriptions = Some(notes)]}
    /\ Report("save_notes", "ok")
    /\ UNCHANGED <<appointments, assignments, today, assignment_default,
                   session, run>>

\* "Mark as Completed": only the confirmation flag is set.
MarkCompleted(s, p) ==
    /\ DoctorPages(s)
    /\ p \in MyActivePatients(session[s].username)
    /\ p.id \notin session[s].confirm_complete
    /\ users' = init_db(users)
    /\ session' = [session EXCEPT ![s].confirm_complete = @ \cup {p.id}]
    /\ Report("mark_completed", "are_you_sure")
    /\ UNCHANGED <<tables, today, assignment_default, run>>

\* "Yes, Complete".
YesComplete(s, p) ==
    /\ DoctorPages(s)
    /\ p \in MyActivePatients(session[s].username)
    /\ p.id \in session[s].confirm_complete
    /\ users' = init_db(users)
    /\ patients' = (patients \ {p}) \cup {[p EXCEPT !.status = "Completed"]}
    /\ session' = [session EXCEPT ![s].confirm_complete = @ \ {p.id}]
    /\ Report("yes_complete", "ok")
    /\ UNCHANGED <<appointments, assignments, today, assignment_default, run>>

\* "No, Cancel".
NoCancel(s, p) ==
    /\ DoctorPages(s)
    /\ p \in MyActivePatients(session[s].username)
    /\ p.id \in session[s].confirm_complete
    /\ users' = init_db(users)
    /\ session' = [session EXCEPT ![s].confirm_complete = @ \ {p.id}]
    /\ Report("no_complete", "none")
    /\ UNCHANGED <<tables, today, assignment_default, run>>

\* ------------------------------------------------------------- store
\* The deletion with no cascade to doctor_assignments.
DeletePatientKeepsAssignments(p) ==
    /\ p \in patients
    /\ patients' = patients \ {p}
    /\ appointments' = {a \in appointments : a.patient_id # p.id}
    /\ assignments' = assignments
    /\ Report("delete_patient", "ok")
    /\ UNCHANGED <<users, today, assignment_default, session, run>>

\* session.delete(patient); session.commit(): Patient.appointments and
\* Patient.doctor_assignments are cascade="all, delete-orphan".
DeletePatient(p) ==
    /\ p \in patients
    /\ patients' = patients \ {p}
    /\ appointments' = {a \in appointments : a.patient_id # p.id}
    /\ assignments' = {a \in assignments : a.patient_id # p.id}
    /\ Report("delete_patient", "ok")
    /\ UNCHANGED <<users, today, assignment_default, session, run>>

\* ------------------------------------------------------------- next
Step(B) ==
    \/ Tick(B)
    \/ \E s \in Sessions, u \in UsernameInputs(B), pw \in PasswordInputs,
          r \in {"Doctor", "Admin"} : Login(s, u, pw, r)
    \/ \E s \in Sessions : LogoutStart(s)
    \/ \E s \in Sessions : LogoutYes(s)
    \/ \E s \in Sessions : LogoutNo(s)
    \/ \E s \in Sessions, n \in NameInputs, m \in MobileInputs,
          d \in DobInputs, r \in ReasonInputs : RegisterSubmit(B, s, n, m, d, r)
    \/ \E s \in Sessions : RegisterCommit(s)
    \/ \E s \in Sessions, p \in 1..B.ids, d \in {""} \cup DoctorInputs(B) :
          AssignQuery(B, s, p, d)
    \/ \E s \in Sessions : AssignCommit(s)
    \/ \E s \in Sessions, p \in 1..B.ids, d \in DoctorInputs(B),
          date \in 0..B.days, time \in ApptTimes, r \in ApptReasons :
          ScheduleAppointment(B, s, p, d, date, time, r)
    \/ \E s \in Sessions, a \in appointments : Approve(s, a)
    \/ \E s \in Sessions, a \in appointments : Deny(s, a)
    \/ \E s \in Sessions, a \in appointments : AddQuery(B, s, a)
    \/ \E s \in Sessions : AddCommit(s)
    \/ \E s \in Sessions, a \in appointments, r \in CancelReasonInputs :
          RequestCancel(s, a, r)

Next == Step(Wide)

NextRace == Step(Race)

NextAppt == Step(Appt)

\* The registration form alone, with dates on both sides of its window.
NextRegister ==
    \/ Tick(Reg)
    \/ \E s \in Sessions, n \in NameInputs, m \in MobileInputs,
          d \in DobTried, r \in ReasonInputs : RegisterSubmit(Reg, s, n, m, d, r)
    \/ \E s \in Sessions : RegisterCommit(s)

\* The portal with the doctor's "My Patients" page.
NextPatients ==
    \/ Step(Pat)
    \/ \E s \in Sessions, p \in patients, n \in NotesInputs : SaveNotes(s, p, n)
    \/ \E s \in Sessions, p \in patients : MarkCompleted(s, p)
    \/ \E s \in Sessions, p \in patients : YesComplete(s, p)
    \/ \E s \in Sessions, p \in patients : NoCancel(s, p)

NextDelete ==
    \/ Step(Del)
    \/ \E p \in patients : DeletePatient(p)

Spec == Init /\ [][Next]_vars

SpecAppt == Start(Appt) /\ [][NextAppt]_vars

SpecDelete == Start(Del) /\ [][NextDelete]_vars

SpecRace == InitRace /\ [][NextRace]_vars

SpecRegister == Start(Reg) /\ [][NextRegister]_vars

NextCalendar == \E s \in Sessions : ShowCalendar(s)

SpecCalendar == StartCalendar /\ [][NextCalendar]_vars

SpecPatients == Start(Pat) /\ [][NextPatients]_vars

SpecSeed == StartSeed /\ [][SeedRun]_vars

\* ------------------------------------------------------------- claims
SameDay(a) ==
    {x \in assignments :
        x.patient_id = a.patient_id /\ x.assignment_date = a.assignment_date}

\* C1: for every patient and every date, the DoctorAssignment rows of that
\* patient with that assignment_date name at most 2 distinct doctors.
C1_AtMostTwoDoctorsPerDay ==
    \A a \in assignments : Cardinality({x.doctor_name : x \in SameDay(a)}) <= 2

Transitions ==
    {<<"Scheduled", "Cancellation Requested", "request_cancel">>,
     <<"Cancellation Requested", "Cancelled", "approve">>,
     <<"Cancellation Requested", "Scheduled", "deny">>}

StatusStep ==
    /\ \A b \in appointments' :
           (\A a \in appointments : a.id # b.id) => b.status = "Scheduled"
    /\ \A a \in appointments : \E b \in appointments' :
           /\ b.id = a.id
           /\ \/ b.status = a.status
              \/ <<a.status, b.status, out'.op>> \in Transitions
           /\ a.status = "Cancelled" => b = a

\* C2: an appointment starts Scheduled; its status changes only Scheduled ->
\* Cancellation Requested (the doctor's request), Cancellation Requested ->
\* Cancelled (admin approve) and Cancellation Requested -> Scheduled (admin
\* deny); a Cancelled appointment never changes again.
C2_StatusTransitions == [][StatusStep]_vars

C2_Witness ==
    /\ out.op = "approve"
    /\ \E a \in appointments : a.status = "Cancelled"

\* C3: no two DoctorAssignment rows share (patient_id, doctor_name,
\* assignment_date): the second Assign or Add for one of them adds no row.
C3_NoDuplicateAssignment ==
    \A a \in assignments : \A b \in SameDay(a) :
        b.doctor_name = a.doctor_name => b.id = a.id

\* C4: no two Patient rows have the same mobile, and a registration that
\* fails on a mobile already stored fails with the duplicate-contact error.
C4_DuplicateMobileRejected ==
    /\ \A p \in patients : \A q \in patients : q.mobile = p.mobile => q.id = p.id
    /\ out.op = "register" =>
           out.res \in {"ok", "processing", "fill_all_fields",
                        "mobile_already_registered"}

Row(rows, id) == CHOOSE r \in rows : r.id = id

\* C5: admin Deny on an appointment in Cancellation Requested sets its status
\* to Scheduled and its cancellation_reason to NULL, and the appointment is
\* again one its doctor can request the cancellation of.
C5_DenyResets ==
    [][\A s \in Sessions : \A a \in appointments :
           Deny(s, a) =>
               LET b == Row(appointments', a.id) IN
               /\ a.status = "Cancellation Requested"
               /\ b.status = "Scheduled"
               /\ b.cancellation_reason = None
               /\ b.doctor_name = a.doctor_name
               /\ appointments' \ {b} = appointments \ {a}]_vars

C5_Witness ==
    /\ out.op = "deny"
    /\ \E a \in appointments :
           a.status = "Scheduled" /\ a.cancellation_reason = None

\* C6: a cancellation request with an empty reason changes nothing, the
\* appointment stays Scheduled with a NULL cancellation_reason; with a
\* non-empty reason the appointment becomes Cancellation Requested and its
\* cancellation_reason is the reason submitted.
C6_RequestNeedsReason ==
    [][\A s \in Sessions : \A a \in appointments : \A r \in CancelReasonInputs :
           RequestCancel(s, a, r) =>
               IF r = <<>>
               THEN /\ appointments' = appointments
                    /\ a.status = "Scheduled"
                    /\ a.cancellation_reason = None
               ELSE LET b == Row(appointments', a.id) IN
                    /\ b.status = "Cancellation Requested"
                    /\ b.cancellation_reason = Some(r)]_vars

C6_Witness ==
    /\ out = [op |-> "request_cancel", res |-> "reason_required"]
    /\ \E a \in appointments : a.status = "Scheduled"

\* C7: every stored Patient has a non-empty name, a non-empty mobile, a date
\* of birth and a non-empty reason_to_visit.
C7_StoredPatientsComplete ==
    \A p \in patients :
        /\ p.name # <<>>
        /\ p.mobile # <<>>
        /\ p.dob # None
        /\ p.reason_to_visit # <<>>

AllUsernames == {"admin"} \cup {SeedDoctors[i] : i \in DOMAIN SeedDoctors}

\* C8: a login attempt sets login_status only if a User row has exactly the
\* username and the role submitted and the password verifies against its
\* hash; the session then holds that username and role, and the page shown is
\* the dashboard of that role.
C8_LoginNeedsMatchingRow ==
    [][\A s \in Sessions :
       (~session[s].login_status /\ session'[s].login_status) =>
       \A u \in AllUsernames : \A pw \in PasswordInputs : \A r \in {"Doctor", "Admin"} :
           Login(s, u, pw, r) =>
               /\ \E x \in users :
                      /\ x.username = u
                      /\ x.role = r
                      /\ Checkpw(pw, x.password_hash)
               /\ session'[s].username = u
               /\ session'[s].role = r
               /\ PageOf(session'[s]) = (IF r = "Admin" THEN "admin" ELSE "doctor")]_vars

C8_Witness ==
    /\ out = [op |-> "login", res |-> "ok"]
    /\ \E s \in Sessions : Page(s) = "doctor"

NoOrphans ==
    /\ \A a \in appointments : \E p \in patients : p.id = a.patient_id
    /\ \A a \in assignments : \E p \in patients : p.id = a.patient_id

C10_AssignmentDated ==
    [][\A s \in Sessions :
           (AssignCommit(s) \/ AddCommit(s)) =>
               \A a \in assignments' \ assignments :
                   a.assignment_date = run[s].arg[3]]_vars

\* C11: a run of init_db keeps every User row as it is, inserts a row only
\* for a default username no row has, leaves every default username with a
\* row, and a second run on its result changes nothing.
C11_SeedingIdempotent ==
    [][SeedRun =>
           /\ \A u \in users : u \in users'
           /\ \A u \in users' \ users :
                  /\ u.username \in AllUsernames
                  /\ \A x \in users : x.username # u.username
           /\ \A n \in AllUsernames : \E u \in users' : u.username = n
           /\ out.op = "init_db" => users' = users
           /\ init_db(users') = users']_vars

C11_Witness ==
    /\ out = [op |-> "init_db", res |-> "again"]
    /\ \E u \in users : u.username = "admin" /\ u.role = "Doctor"
    /\ \E u \in users : u.username = "Dr. Ghosh" /\ Checkpw("@123", u.password_hash)
    /\ \E u \in users : u.username = "guest"

\* C12: a login that fails because no User row has the username under the
\* role chosen and a login that fails because the password is wrong end
\* alike: the invalid-credentials error, st.session_state as it was, every
\* table as it was.
C12_FailedLoginUniform ==
    [][(out'.op = "login" /\ today' = today) =>
       \A s \in Sessions : \A u \in AllUsernames : \A pw \in PasswordInputs :
       \A r \in {"Doctor", "Admin"} :
           (/\ Login(s, u, pw, r)
            /\ \/ \A x \in users : ~(x.username = u /\ x.role = r)
               \/ \E x \in users :
                      /\ x.username = u
                      /\ x.role = r
                      /\ ~Checkpw(pw, x.password_hash)) =>
               /\ out' = [op |-> "login", res |-> "invalid_credentials"]
               /\ session' = session
               /\ users' = users
               /\ tables' = tables]_vars

C12_Witness ==
    /\ out = [op |-> "login", res |-> "invalid_credentials"]
    /\ \A s \in Sessions : session[s] = EmptySession
    /\ patients # {}

InWindow(dob, day) == dob # None /\ day - DobWindow <= dob[1] /\ dob[1] <= day

\* C13: a registration whose date of birth is before today - 30 days or after
\* today fails and creates no Patient row and starts no insert; a registration
\* that goes on to insert carries a date of birth within [today - 30, today],
\* and the Patient row inserted has that date of birth.
C13_DobWithinWindow ==
    [][/\ \A s \in Sessions : \A n \in NameInputs : \A m \in MobileInputs :
          \A d \in DobTried : \A r \in ReasonInputs :
              RegisterSubmit(Reg, s, n, m, d, r) =>
                  /\ patients' = patients
                  /\ ~InWindow(d, today) =>
                         /\ out'.res = "fill_all_fields"
                         /\ run' = run
                  /\ run'[s].pc = "register" => InWindow(run'[s].arg[3], today)
       /\ \A p \in patients' \ patients : \E s \in Sessions :
              /\ run[s].pc = "register"
              /\ run'[s] = Idle
              /\ p.dob = run[s].arg[3]]_vars

C13_Witness ==
    /\ today = 1
    /\ \E p \in patients : p.dob = Some(1 - DobWindow)
    /\ out = [op |-> "register", res |-> "fill_all_fields"]

SameMonth == {a \in appointments : MonthOf(a.date) = MonthOf(today)}

Monday == today - Weekday(today)

\* C14: the calendar page's monthly metric is the number of appointments dated
\* in today's calendar month, and its weekly metric the number of those dated
\* from the Monday on or before today to the Sunday after it.
C14_CalendarMetrics ==
    out.op = "calendar" =>
        /\ out.res[2] = Cardinality(SameMonth)
        /\ out.res[1] =
               Cardinality({a \in SameMonth :
                               Monday <= a.date /\ a.date <= Monday + 6})
\* C15: the store session a run of a page opened is closed when that run
\* has ended, whichever way the run went.
C15_StoreSessionClosed ==
    (\A s \in Sessions : run[s] = Idle) => session_closed(out.op, out.res)
LoggedIn(s, role) == session[s].login_status /\ session[s].role = role

\* An appointment becomes Cancellation Requested only by the request of a
\* session logged in as the Doctor the appointment names.
RequestedByItsDoctor ==
    \A a \in appointments : \A b \in appointments' :
        (/\ b.id = a.id
         /\ a.status # "Cancellation Requested"
         /\ b.status = "Cancellation Requested") =>
            \E s \in Sessions : \E r \in CancelReasonInputs :
                /\ RequestCancel(s, a, r)
                /\ LoggedIn(s, "Doctor")
                /\ session[s].username = a.doctor_name

\* An appointment leaves Cancellation Requested only by the Approve or the
\* Deny of a session logged in as Admin.
DecidedByAdmin ==
    \A a \in appointments : \A b \in appointments' :
        (/\ b.id = a.id
         /\ a.status = "Cancellation Requested"
         /\ b.status # "Cancellation Requested") =>
            \E s \in Sessions :
                /\ Approve(s, a) \/ Deny(s, a)
                /\ LoggedIn(s, "Admin")

NobodyLoggedIn == \A s \in Sessions : ~session[s].login_status

\* C16: an appointment becomes Cancellation Requested only by the request of
\* a session logged in as the Doctor it names, approve and deny happen only
\* in a session logged in as Admin, and while no session is logged in no row
\* of patients, appointments or doctor_assignments changes.
C16_RoleGatedMutations ==
    [][/\ RequestedByItsDoctor
       /\ DecidedByAdmin
       /\ NobodyLoggedIn => tables' = tables]_vars

\* C16, amended: as C16, but while no session is logged in the one change to
\* the tables is the Patient row a registration inserts: appointments and
\* doctor_assignments stay as they are and so does every Patient row.
C16_RoleGatedExceptRegistration ==
    [][/\ RequestedByItsDoctor
       /\ DecidedByAdmin
       /\ NobodyLoggedIn =>
              /\ appointments' = appointments
              /\ assignments' = assignments
              /\ patients \subseteq patients'
              /\ patients' # patients => out'.op = "register"]_vars

C16_Witness ==
    /\ out.op = "request_cancel"
    /\ \E s \in Sessions :
           /\ LoggedIn(s, "Doctor")
           /\ \E a \in appointments :
                  /\ a.status = "Cancellation Requested"
                  /\ a.doctor_name = session[s].username
           /\ \E b \in appointments :
                  /\ b.status = "Scheduled"
                  /\ b.doctor_name # session[s].username
Fixed(a) == <<a.id, a.patient_id, a.doctor_name, a.date, a.time, a.reason>>

\* C17: an appointment keeps its patient_id, doctor_name, date, time and
\* reason for good; a cancellation request, an approve and a deny change
\* nothing but the status and the cancellation_reason of the appointment
\* they are about: every other appointment, every patient and every
\* assignment is as it was.
C17_AppointmentFrame ==
    [][/\ \A a \in appointments : \E b \in appointments' : Fixed(b) = Fixed(a)
       /\ (out'.op \in {"request_cancel", "approve", "deny"}) =>
          \A s \in Sessions : \A a \in appointments :
              (\/ Approve(s, a)
               \/ Deny(s, a)
               \/ \E r \in CancelReasonInputs : RequestCancel(s, a, r)) =>
                  /\ {b \in appointments' : b.id # a.id} = appointments \ {a}
                  /\ patients' = patients
                  /\ assignments' = assignments]_vars

C17_Witness ==
    /\ out.op = "approve"
    /\ patients # {}
    /\ assignments # {}
    /\ \E a \in appointments : \E b \in appointments :
           /\ a.status = "Cancelled"
           /\ b.status = "Cancellation Requested"

\* C18: an appointment has a cancellation_reason that is set and not empty
\* exactly when its status is Cancellation Requested or Cancelled.
C18_ReasonIffRequested ==
    \A a \in appointments :
        (a.cancellation_reason # None /\ a.cancellation_reason # Some(<<>>))
            <=> a.status \in {"Cancellation Requested", "Cancelled"}

C18_Witness ==
    /\ out.op = "deny"
    /\ \E a \in appointments : \E b \in appointments :
           /\ a.status = "Cancelled"
           /\ a.cancellation_reason = Some(<<"x">>)
           /\ b.status = "Scheduled"
           /\ b.cancellation_reason = None
PatientStep ==
    \A p \in patients : \E q \in patients' :
        /\ q.id = p.id
        /\ p.status = "Completed" => q.status = "Completed"
        /\ q.status # p.status =>
               /\ p.status = "Active"
               /\ q.status = "Completed"
               /\ \E s \in Sessions :
                      /\ YesComplete(s, p)
                      /\ LoggedIn(s, "Doctor")
                      /\ p.id \in session[s].confirm_complete
                      /\ \E a \in assignments :
                             /\ a.patient_id = p.id
                             /\ a.doctor_name = session[s].username

\* C19: a patient's status changes only from Active to Completed, and only
\* by the "Yes, Complete" of a logged-in doctor who has an assignment for the
\* patient and has pressed "Mark as Completed" before; "No, Cancel" clears
\* the pending confirmation and leaves the patient Active; a Completed
\* patient stays Completed; a new patient is Active.
C19_PatientStatus ==
    [][/\ PatientStep
       /\ \A q \in patients' :
              (\A p \in patients : p.id # q.id) => q.status = "Active"
       /\ \A s \in Sessions : \A p \in patients :
              NoCancel(s, p) =>
                  /\ patients' = patients
                  /\ p.status = "Active"
                  /\ p.id \in session[s].confirm_complete
                  /\ p.id \notin session'[s].confirm_complete
       /\ \A s \in Sessions : \A p \in patients :
              MarkCompleted(s, p) => patients' = patients
       /\ \A s \in Sessions : \A p \in patients :
              YesComplete(s, p) =>
                  /\ Row(patients', p.id) = [p EXCEPT !.status = "Completed"]
                  /\ {q \in patients' : q.id # p.id} = patients \ {p}]_vars

C19_Witness ==
    /\ out.op = "yes_complete"
    /\ \E p \in patients : p.status = "Completed" /\ p.prescriptions # None
    /\ \E a \in assignments : \E b \in assignments : a.doctor_name # b.doctor_name
====
